---------------------------- MODULE Spec2Model ----------------------------
(***************************************************************************)
(* Context-and-retrieval core of the conversational backend:               *)
(*   - TokenCounter (app/utils/token_counter.py)                           *)
(*   - LLMService._manage_context (app/services/llm_service.py)            *)
(*   - TextProcessor.chunk_text (app/utils/text_processor.py)              *)
(*   - Settings / RAGService.__init__ (app/config.py, rag_service.py)      *)
(*   - TextProcessor.calculate_relevance_score                             *)
(*   - RAGService.retrieve_relevant_chunks (app/services/rag_service.py)   *)
(*   - ConversationService turns and LLMService.generate_with_rag_context  *)
(*     (app/services/conversation_service.py, llm_service.py)              *)
(*   - concurrent add_message calls against the unique message index       *)
(*     (app/services/conversation_service.py, app/database/mongodb.py)     *)
(*                                                                         *)
(* A text handed to the tokenizer is represented by the sequence of its    *)
(* tokens; a document text is a sequence of characters.                    *)
(***************************************************************************)
EXTENDS Integers, Sequences, FiniteSets, TLC

VARIABLES
    entry,          \* which entry point this run exercises
    max_history,    \* settings.max_conversation_history (LLMService.max_history)
    max_tokens,     \* settings.max_tokens (LLMService.max_tokens)
    chunk_size,     \* settings.chunk_size (RAGService.chunk_size)
    chunk_overlap,  \* settings.chunk_overlap (RAGService.chunk_overlap)
    ctx_pc,         \* position of generate_response: "idle" | "managed"
    messages,       \* the list generate_response was called with
    windowed,       \* _manage_context: the list after the sliding window
    managed,        \* _manage_context: the list it returns
    log,            \* records the logger has emitted, in order
    chunk_pc,       \* position of chunk_text: "idle" | "loop" | "done"
    text,           \* chunk_text: its text argument
    words,          \* chunk_text: text.split()
    chunks,         \* chunk_text: the chunks list built so far / returned
    chunk_index,    \* chunk_text: chunk_index
    start,          \* chunk_text: start
    score_pc,       \* position of calculate_relevance_score: "idle" | "done"
    query,          \* calculate_relevance_score / retrieve_relevant_chunks: query
    chunk_str,      \* calculate_relevance_score: chunk_text
    score,          \* calculate_relevance_score: the value returned
    ret_pc,         \* position of retrieve_relevant_chunks: "idle" | "done"
    documents,      \* the conversation's documents in the store, in find() order
    top_k,          \* retrieve_relevant_chunks: top_k
    scored_chunks,  \* retrieve_relevant_chunks: scored_chunks
    retrieved,      \* retrieve_relevant_chunks: the list of texts returned
    conv_pc,        \* position of create_conversation / add_message
    mode,           \* conversation["mode"]
    db_messages,    \* the conversation's stored messages, by sequence_number
    history,        \* add_message: conversation_history
    user_content,   \* add_message: content
    sequence_number,\* add_message: sequence_number (of the user message)
    retrieved_chunks, \* _generate_and_store_response: chunks
    response,       \* _generate_and_store_response: response
    conv_meta,      \* conversation["metadata"]
    calls           \* concurrent add_message calls: each call's position and locals

vars == <<entry, max_history, max_tokens, chunk_size, chunk_overlap,
          ctx_pc, messages, windowed, managed, log,
          chunk_pc, text, words, chunks, chunk_index, start,
          score_pc, query, chunk_str, score,
          ret_pc, documents, top_k, scored_chunks, retrieved,
          conv_pc, mode, db_messages, history, user_content, sequence_number,
          retrieved_chunks, response, conv_meta, calls>>

settingsVars == <<entry, max_history, max_tokens, chunk_size, chunk_overlap>>
ctxVars == <<ctx_pc, messages, windowed, managed, log>>
chunkVars == <<chunk_pc, text, words, chunks, chunk_index, start>>
scoreVars == <<score_pc, query, chunk_str, score>>
retrVars == <<ret_pc, documents, top_k, scored_chunks, retrieved>>
convVars == <<conv_pc, mode, db_messages, history, user_content, sequence_number,
              retrieved_chunks, response, conv_meta>>
concVars == <<calls>>

---------------------------------------------------------------------------
(* Bounds of the model *)

MaxHistoryLen == 3
MaxHistory == 3
MaxTokens == 22
MaxTextLen == 8
MaxChunkSize == 2
MaxQueryLen == 2
MaxChunkTextLen == 3
MaxPoolChunks == 3
MaxTurns == 2
MaxUploads == 1
MaxCallers == 2

(* Program constants *)

MessageOverhead == 4
ConversationOverhead == 2
DefaultMaxHistory == 12
DefaultMaxTokens == 7000
DefaultChunkSize == 600
DefaultChunkOverlap == 100
TopK == 3

---------------------------------------------------------------------------
(* Python list / string primitives *)

Min(a, b) == IF a <= b THEN a ELSE b
Max(a, b) == IF a >= b THEN a ELSE b

\* A slice index as Python normalises it: negative counts from the end,
\* and the result is clamped to 0..len.
PyIndex(i, n) == IF i < 0 THEN Max(n + i, 0) ELSE Min(i, n)

\* s[lo:hi]
PySlice(s, lo, hi) ==
    LET a == PyIndex(lo, Len(s))
        b == PyIndex(hi, Len(s))
    IN  IF a >= b THEN <<>> ELSE SubSeq(s, a + 1, b)

\* s[lo:]
PySliceFrom(s, lo) == PySlice(s, lo, Len(s))

\* s[:hi]
PySliceTo(s, hi) == PySlice(s, 0, hi)

SeqsUpTo(S, n) == UNION {[1..k -> S] : k \in 0..n}

---------------------------------------------------------------------------
(* Messages *)

Roles == {"system", "user", "assistant"}

\* Message contents, each as the token sequence the encoding gives it.
Contents == {<<"t">>, <<"t", "t">>}

Messages == [role : Roles, content : Contents]

\* Stored conversation histories (MessageRole admits the three roles)
Histories == SeqsUpTo(Messages, MaxHistoryLen)

\* The lists the callers of generate_response build: the history, then the
\* current user message.
MessageLists ==
    {h \o <<[role |-> "user", content |-> c]>> : h \in Histories, c \in Contents}

\* The encoding of a role name: each of the three names is a single token.
RoleText(role) == <<role>>

IsSystem(m) == m.role = "system"
IsOther(m) == m.role # "system"

SystemMessages(msgs) == SelectSeq(msgs, IsSystem)
OtherMessages(msgs) == SelectSeq(msgs, IsOther)

---------------------------------------------------------------------------
(* TokenCounter *)

count_tokens(t) == Len(t)

RECURSIVE SumMessageTokens(_)
SumMessageTokens(msgs) ==
    IF msgs = <<>> THEN 0
    ELSE MessageOverhead
         + count_tokens(RoleText(Head(msgs).role))
         + count_tokens(Head(msgs).content)
         + SumMessageTokens(Tail(msgs))

\* Mutant: the count without the overhead of the conversation.
count_message_tokens_without_conversation_overhead(msgs) == SumMessageTokens(msgs)

count_message_tokens(msgs) == SumMessageTokens(msgs) + ConversationOverhead

\* remaining_tokens of truncate_messages (keep_system = True)
RemainingTokens(msgs, maxTok) ==
    maxTok - count_message_tokens(SystemMessages(msgs))

\* Mutant: the walk skips a message that does not fit and goes on (best fit).
RECURSIVE BackwardWalkSkipping(_, _, _, _)
BackwardWalkSkipping(other, remaining, current, result) ==
    IF other = <<>> THEN result
    ELSE LET m == other[Len(other)]
             t == count_message_tokens(<<m>>)
         IN  IF current + t <= remaining
             THEN BackwardWalkSkipping(SubSeq(other, 1, Len(other) - 1),
                                       remaining, current + t, <<m>> \o result)
             ELSE BackwardWalkSkipping(SubSeq(other, 1, Len(other) - 1),
                                       remaining, current, result)

\* Mutant: the walk stops at a message that fills the budget exactly.
RECURSIVE BackwardWalkStrict(_, _, _, _)
BackwardWalkStrict(other, remaining, current, result) ==
    IF other = <<>> THEN result
    ELSE LET m == other[Len(other)]
             t == count_message_tokens(<<m>>)
         IN  IF current + t < remaining
             THEN BackwardWalkStrict(SubSeq(other, 1, Len(other) - 1),
                                     remaining, current + t, <<m>> \o result)
             ELSE result

\* The loop over reversed(other_messages): insert at the front while it fits,
\* break at the first message that does not.
RECURSIVE BackwardWalk(_, _, _, _)
BackwardWalk(other, remaining, current, result) ==
    IF other = <<>> THEN result
    ELSE LET m == other[Len(other)]
             t == count_message_tokens(<<m>>)
         IN  IF current + t <= remaining
             THEN BackwardWalk(SubSeq(other, 1, Len(other) - 1),
                               remaining, current + t, <<m>> \o result)
             ELSE result

\* Mutant: the budget of the walk forgets the system messages' tokens.
truncate_messages_ignoring_system_tokens(msgs, maxTok) ==
    IF msgs = <<>> THEN msgs
    ELSE IF RemainingTokens(msgs, maxTok) <= 0
         THEN PySliceTo(SystemMessages(msgs), 1)
         ELSE SystemMessages(msgs)
              \o BackwardWalk(OtherMessages(msgs), maxTok, 0, <<>>)

\* Mutant: every system message is kept when they exceed the budget.
truncate_messages_keeping_all_system(msgs, maxTok) ==
    IF msgs = <<>> THEN msgs
    ELSE IF RemainingTokens(msgs, maxTok) <= 0
         THEN SystemMessages(msgs)
         ELSE SystemMessages(msgs)
              \o BackwardWalk(OtherMessages(msgs),
                              RemainingTokens(msgs, maxTok), 0, <<>>)

\* truncate_messages(messages, max_tokens) with keep_system = True
truncate_messages(msgs, maxTok) ==
    IF msgs = <<>> THEN msgs
    ELSE IF RemainingTokens(msgs, maxTok) <= 0
         THEN PySliceTo(SystemMessages(msgs), 1)
         ELSE SystemMessages(msgs)
              \o BackwardWalk(OtherMessages(msgs),
                              RemainingTokens(msgs, maxTok), 0, <<>>)

\* What truncate_messages logs
truncate_log(msgs, maxTok) ==
    IF msgs # <<>> /\ RemainingTokens(msgs, maxTok) <= 0
    THEN <<[level |-> "warning", event |-> "System messages exceed token limit"]>>
    ELSE <<>>

---------------------------------------------------------------------------
(* LLMService._manage_context *)

\* Mutant: the window keeps the last max_history non-system messages,
\* not counting the system messages against the cap.
sliding_window_ignoring_system(msgs, maxHist) ==
    IF Len(msgs) > maxHist
    THEN SystemMessages(msgs) \o PySliceFrom(OtherMessages(msgs), -maxHist)
    ELSE msgs

\* Mutant: the window keeps the oldest non-system messages.
sliding_window_keeping_oldest(msgs, maxHist) ==
    IF Len(msgs) > maxHist
    THEN SystemMessages(msgs)
         \o PySliceTo(OtherMessages(msgs), maxHist - Len(SystemMessages(msgs)))
    ELSE msgs

\* Phase 1: other_messages[-(max_history - len(system_messages)):]
sliding_window(msgs, maxHist) ==
    IF Len(msgs) > maxHist
    THEN SystemMessages(msgs)
         \o PySliceFrom(OtherMessages(msgs),
                        -(maxHist - Len(SystemMessages(msgs))))
    ELSE msgs

\* Phase 2: truncate when the token count exceeds max_tokens
budget_truncation(msgs, maxTok) ==
    IF count_message_tokens(msgs) > maxTok
    THEN truncate_messages(msgs, maxTok)
    ELSE msgs

manage_context_log(msgs, maxTok) ==
    IF count_message_tokens(msgs) > maxTok
    THEN <<[level |-> "warning", event |-> "Message tokens exceed limit. Truncating"]>>
         \o truncate_log(msgs, maxTok)
         \o <<[level |-> "info", event |-> "Messages truncated"]>>
    ELSE <<>>

\* generate_response(messages) up to the completion call: _manage_context
GenerateResponse(msgs) ==
    /\ entry = "generate_response"
    /\ ctx_pc = "idle"
    /\ messages' = msgs
    /\ windowed' = sliding_window(msgs, max_history)
    /\ managed' = budget_truncation(sliding_window(msgs, max_history), max_tokens)
    /\ log' = log \o manage_context_log(sliding_window(msgs, max_history), max_tokens)
    /\ ctx_pc' = "managed"
    /\ UNCHANGED <<settingsVars, concVars, chunkVars, scoreVars, retrVars, convVars>>

---------------------------------------------------------------------------
(* TextProcessor.chunk_text *)

\* One letter and one whitespace character: words differ by length and place.
Chars == {"a", " "}

Texts == SeqsUpTo(Chars, MaxTextLen)

IsSpace(c) == c = " "

\* str.split(): the maximal runs of non-whitespace characters, in order
RECURSIVE SplitFrom(_, _, _, _)
SplitFrom(t, i, cur, acc) ==
    IF i > Len(t)
    THEN IF cur = <<>> THEN acc ELSE Append(acc, cur)
    ELSE IF IsSpace(t[i])
         THEN SplitFrom(t, i + 1, <<>>, IF cur = <<>> THEN acc ELSE Append(acc, cur))
         ELSE SplitFrom(t, i + 1, Append(cur, t[i]), acc)

Split(t) == SplitFrom(t, 1, <<>>, <<>>)

\* " ".join(ws)
RECURSIVE Join(_)
Join(ws) ==
    IF ws = <<>> THEN <<>>
    ELSE IF Len(ws) = 1 THEN ws[1]
         ELSE ws[1] \o <<" ">> \o Join(Tail(ws))

\* f"chunk_{i}"
ChunkId(i) == <<"chunk_", i>>

\* Mutant: the single chunk carries the re-joined words, not the text.
SingleChunkRejoined(t, ws) ==
    [chunk_id |-> ChunkId(0), text |-> Join(ws), start_word |-> 0,
     end_word |-> Len(ws), word_count |-> Len(ws)]

\* The chunk returned when len(words) <= chunk_size
SingleChunk(t, ws) ==
    [chunk_id |-> ChunkId(0), text |-> t, start_word |-> 0,
     end_word |-> Len(ws), word_count |-> Len(ws)]

\* Mutant: the window end is not clamped to the word count.
WindowEndUnclamped(st, size, n) == st + size

\* end = min(start + chunk_size, len(words))
WindowEnd(st, size, n) == Min(st + size, n)

\* The chunk appended by one iteration, chunk_words = words[start:end]
WindowChunk(ws, idx, st, en) ==
    [chunk_id |-> ChunkId(idx), text |-> Join(PySlice(ws, st, en)),
     start_word |-> st, end_word |-> en,
     word_count |-> Len(PySlice(ws, st, en))]

\* Mutant: the window steps back by the overlap after the last chunk too.
NextStartAlwaysOverlapping(en, overlap, n) == en - overlap

\* Mutant: the window steps back by one word more than the overlap.
NextStartOffByOne(en, overlap, n) == IF en < n THEN en - overlap - 1 ELSE en

\* start = end - overlap if end < len(words) else end
NextStart(en, overlap, n) == IF en < n THEN en - overlap ELSE en

\* The loop is cut off after MaxChunks iterations; with overlap < chunk_size
\* it ends before (ChunkCapNotReached).
MaxChunks == (MaxTextLen \div 2) + 2

\* chunk_text(text, chunk_size, overlap) up to the loop
ChunkTextCall(t) ==
    /\ entry = "process_document"
    /\ chunk_pc = "idle"
    /\ text' = t
    /\ words' = Split(t)
    /\ chunk_index' = 0
    /\ start' = 0
    /\ IF Len(Split(t)) <= chunk_size
       THEN /\ chunks' = <<SingleChunk(t, Split(t))>>
            /\ chunk_pc' = "done"
       ELSE /\ chunks' = <<>>
            /\ chunk_pc' = "loop"
    /\ UNCHANGED <<settingsVars, concVars, ctxVars, scoreVars, retrVars, convVars>>

\* One iteration of while start < len(words)
ChunkTextIteration ==
    /\ chunk_pc = "loop"
    /\ start < Len(words)
    /\ chunk_index < MaxChunks
    /\ LET en == WindowEnd(start, chunk_size, Len(words))
       IN  /\ chunks' = Append(chunks, WindowChunk(words, chunk_index, start, en))
           /\ chunk_index' = chunk_index + 1
           /\ start' = NextStart(en, chunk_overlap, Len(words))
    /\ UNCHANGED <<settingsVars, concVars, ctxVars, scoreVars, retrVars, convVars, chunk_pc, text, words>>

\* The loop condition fails: return chunks
ChunkTextReturn ==
    /\ chunk_pc = "loop"
    /\ ~(start < Len(words))
    /\ chunk_pc' = "done"
    /\ UNCHANGED <<settingsVars, concVars, ctxVars, scoreVars, retrVars, convVars, text, words, chunks, chunk_index, start>>

---------------------------------------------------------------------------
(* TextProcessor.calculate_relevance_score *)

\* Characters of queries and chunk texts: two lower-case letters, an
\* upper-case letter, a punctuation mark and a whitespace character.
ScoreChars == {"a", "b", "A", "!", " "}

Queries == SeqsUpTo(ScoreChars, MaxQueryLen)

ChunkTexts == SeqsUpTo(ScoreChars, MaxChunkTextLen)

\* str.lower(), one character
LowerChar(c) ==
    CASE c = "A" -> "a"
      [] c = "O" -> "o"
      [] OTHER -> c

\* str.lower()
LowerStr(s) == [i \in 1..Len(s) |-> LowerChar(s[i])]

\* The characters the pattern [^\w\s] matches: neither a word character
\* (letter, digit, underscore) nor whitespace
IsPunctuation(c) == c \in {"!", ".", ",", "?"}

KeptByPattern(c) == ~IsPunctuation(c)

\* re.sub(r'[^\w\s]', '', s)
StripPunctuation(s) == SelectSeq(s, KeptByPattern)

ToSet(s) == {s[i] : i \in 1..Len(s)}

\* set(re.sub(r'[^\w\s]', '', s.lower()).split())
WordSet(s) == ToSet(Split(StripPunctuation(LowerStr(s))))

\* A score is the quotient num / den of two small integers; 0.0 is 0 / 1.
ZeroScore == [num |-> 0, den |-> 1]

\* Mutant: the denominator adds the two sizes instead of taking the union.
calculate_relevance_score_sum_of_sizes(q, c) ==
    IF WordSet(q) = {} \/ WordSet(c) = {}
    THEN ZeroScore
    ELSE [num |-> Cardinality(WordSet(q) \cap WordSet(c)),
          den |-> Cardinality(WordSet(q)) + Cardinality(WordSet(c))]

\* Mutant: only the chunk text is lower-cased.
calculate_relevance_score_query_as_typed(q, c) ==
    LET qw == ToSet(Split(StripPunctuation(q)))
    IN  IF qw = {} \/ WordSet(c) = {}
        THEN ZeroScore
        ELSE [num |-> Cardinality(qw \cap WordSet(c)),
              den |-> Cardinality(qw \cup WordSet(c))]

\* calculate_relevance_score(query, chunk_text)
calculate_relevance_score(q, c) ==
    IF WordSet(q) = {} \/ WordSet(c) = {}
    THEN ZeroScore
    ELSE IF WordSet(q) \cup WordSet(c) # {}
         THEN [num |-> Cardinality(WordSet(q) \cap WordSet(c)),
               den |-> Cardinality(WordSet(q) \cup WordSet(c))]
         ELSE ZeroScore

\* One call of calculate_relevance_score(query, c)
CalculateRelevanceScore(c) ==
    /\ entry = "calculate_relevance_score"
    /\ score_pc = "idle"
    /\ chunk_str' = c
    /\ score' = calculate_relevance_score(query, c)
    /\ score_pc' = "done"
    /\ UNCHANGED <<settingsVars, concVars, ctxVars, chunkVars, retrVars, convVars, query>>

---------------------------------------------------------------------------
(* RAGService.retrieve_relevant_chunks *)

\* Chunk texts of the stored documents
RetrTexts == {<<"a">>, <<"b">>, <<"a", " ", "b">>}

\* Queries: scoring the texts 1, 0, 1/2; 1/2, 1/2, 1; 0, 0, 0; 0, 1, 1/2
RetrQueries == {<<"a">>, <<"a", " ", "b">>, <<"!">>, <<"B">>}

\* The chunk texts of every list of documents holding n chunks or fewer in
\* all, each document with one chunk at least (chunk_text returns no empty list)
RECURSIVE PoolsUpTo(_)
PoolsUpTo(n) ==
    {<<>>} \cup
    UNION {{<<d>> \o rest : rest \in PoolsUpTo(n - Len(d))} :
              d \in SeqsUpTo(RetrTexts, n) \ {<<>>}}

Pools == PoolsUpTo(MaxPoolChunks)

\* doc["filename"] of the i-th document
DocName(i) == <<"doc_", i>>

\* The stored documents with the chunk texts p: document["chunks"] as
\* process_document stores them
StoredDocuments(p) ==
    [i \in 1..Len(p) |->
        [filename |-> DocName(i),
         chunks |-> [j \in 1..Len(p[i]) |->
                        [chunk_id |-> ChunkId(j - 1), text |-> p[i][j]]]]]

\* The entries appended for one document
ScoredOfDoc(doc, q) ==
    [j \in 1..Len(doc.chunks) |->
        [text |-> doc.chunks[j].text,
         score |-> calculate_relevance_score(q, doc.chunks[j].text),
         chunk_id |-> doc.chunks[j].chunk_id,
         document |-> doc.filename]]

\* The two loops: for doc in documents, for chunk in chunks
RECURSIVE ScoreAll(_, _)
ScoreAll(docs, q) ==
    IF docs = <<>> THEN <<>>
    ELSE ScoredOfDoc(Head(docs), q) \o ScoreAll(Tail(docs), q)

\* a > b for two scores
ScoreGreater(a, b) == a.num * b.den > b.num * a.den

\* x put behind every entry whose score is at least its own
RECURSIVE InsertDesc(_, _)
InsertDesc(s, x) ==
    IF s = <<>> THEN <<x>>
    ELSE IF ScoreGreater(x.score, Head(s).score)
         THEN <<x>> \o s
         ELSE <<Head(s)>> \o InsertDesc(Tail(s), x)

\* x put before every entry whose score is at most its own
RECURSIVE InsertDescBeforeTies(_, _)
InsertDescBeforeTies(s, x) ==
    IF s = <<>> THEN <<x>>
    ELSE IF ~ScoreGreater(Head(s).score, x.score)
         THEN <<x>> \o s
         ELSE <<Head(s)>> \o InsertDescBeforeTies(Tail(s), x)

\* Mutant: a descending sort that reverses the order of equal scores
\* (an ascending sort, then reversed).
RECURSIVE SortDescTiesReversed(_)
SortDescTiesReversed(s) ==
    IF s = <<>> THEN <<>>
    ELSE InsertDescBeforeTies(SortDescTiesReversed(SubSeq(s, 1, Len(s) - 1)),
                              s[Len(s)])

\* x put behind every entry whose score is at most its own
RECURSIVE InsertAsc(_, _)
InsertAsc(s, x) ==
    IF s = <<>> THEN <<x>>
    ELSE IF ScoreGreater(Head(s).score, x.score)
         THEN <<x>> \o s
         ELSE <<Head(s)>> \o InsertAsc(Tail(s), x)

\* Mutant: the sort without reverse=True.
RECURSIVE SortAsc(_)
SortAsc(s) ==
    IF s = <<>> THEN <<>>
    ELSE InsertAsc(SortAsc(SubSeq(s, 1, Len(s) - 1)), s[Len(s)])

\* scored_chunks.sort(key=lambda x: x["score"], reverse=True): list.sort is
\* stable, and with reverse=True equal keys keep their order too
RECURSIVE SortDesc(_)
SortDesc(s) ==
    IF s = <<>> THEN <<>>
    ELSE InsertDesc(SortDesc(SubSeq(s, 1, Len(s) - 1)), s[Len(s)])

\* [chunk["text"] for chunk in top_chunks]
TextsOf(s) == [i \in 1..Len(s) |-> s[i].text]

\* scored_chunks after the sort
sorted_scored_chunks(docs, q) ==
    IF docs = <<>> THEN <<>> ELSE SortDesc(ScoreAll(docs, q))

\* The entries of s with a score above zero
RECURSIVE PositiveOnly(_)
PositiveOnly(s) ==
    IF s = <<>> THEN <<>>
    ELSE (IF ScoreGreater(Head(s).score, ZeroScore) THEN <<Head(s)>> ELSE <<>>)
         \o PositiveOnly(Tail(s))

\* Mutant: chunks of score zero are left out before the top_k are taken.
retrieve_relevant_chunks_positive_only(docs, q, k) ==
    IF docs = <<>> THEN <<>>
    ELSE TextsOf(PySliceTo(PositiveOnly(SortDesc(ScoreAll(docs, q))), k))

\* What retrieve_relevant_chunks returns when the store answers
retrieve_relevant_chunks(docs, q, k) ==
    IF docs = <<>> THEN <<>>
    ELSE TextsOf(PySliceTo(sorted_scored_chunks(docs, q), k))

retrieve_log(docs) ==
    IF docs = <<>>
    THEN <<[level |-> "warning", event |-> "No documents found for conversation"]>>
    ELSE <<[level |-> "info", event |-> "Retrieved relevant chunks for query"]>>

\* retrieve_relevant_chunks(conversation_id, query, top_k), the store answering
\* with the documents of chunk texts p
RetrieveRelevantChunks(p, k) ==
    /\ entry = "retrieve_relevant_chunks"
    /\ ret_pc = "idle"
    /\ documents' = StoredDocuments(p)
    /\ top_k' = k
    /\ scored_chunks' = sorted_scored_chunks(StoredDocuments(p), query)
    /\ retrieved' = retrieve_relevant_chunks(StoredDocuments(p), query, k)
    /\ log' = log \o retrieve_log(StoredDocuments(p))
    /\ ret_pc' = "done"
    /\ UNCHANGED <<settingsVars, concVars, chunkVars, scoreVars, convVars, ctx_pc,
                   messages, windowed, managed>>

\* retrieve_relevant_chunks when the store raises: the except branch
RetrieveRelevantChunksFails(p, k) ==
    /\ entry = "retrieve_relevant_chunks"
    /\ ret_pc = "idle"
    /\ documents' = StoredDocuments(p)
    /\ top_k' = k
    /\ scored_chunks' = <<>>
    /\ retrieved' = <<>>
    /\ log' = log \o <<[level |-> "error", event |-> "Error retrieving chunks"]>>
    /\ ret_pc' = "failed"
    /\ UNCHANGED <<settingsVars, concVars, chunkVars, scoreVars, convVars, ctx_pc,
                   messages, windowed, managed>>

---------------------------------------------------------------------------
(* ConversationService and LLMService.generate_with_rag_context *)

Modes == {"open_chat", "grounded_rag"}

\* Contents of user messages; a content is the sequence of its characters, one
\* token each
ConvContents == {<<"a">>, <<"b">>}

\* The chunk texts of the documents a client uploads
ConvUploads ==
    {<< <<"b">>, <<"b">> >>,
     << <<"a", " ", "b">>, <<"b">>, <<"a">>, <<"a">> >>}

\* The completion service replies (its completions carry a usage record) or
\* raises
CompletionReply == <<"reply">>
FailureText == <<"connection error">>
NoError == <<>>
CompletionOutcomes ==
    {[ok |-> TRUE, usage |-> TRUE, error |-> NoError],
     [ok |-> FALSE, usage |-> FALSE, error |-> FailureText]}

GroqModel == "groq_model"

Fallback ==
    <<"I apologize, but I'm having trouble generating a response right now. Please try again.">>

RagInstruction ==
    <<"You are a helpful assistant. Answer the user's question based on the provided document excerpts. If the answer cannot be found in the provided context, say so clearly. Always cite which document excerpt you're using when answering.">>

\* Mutant: the excerpt labelled with enumerate's index itself.
ExcerptZeroBased(i, chunk) ==
    <<"[Document Excerpt ", ToString(i), "]", "\n">> \o chunk

\* f"[Document Excerpt {i+1}]\n{chunk}", i the index enumerate gives (from 0)
Excerpt(i, chunk) ==
    <<"[Document Excerpt ", ToString(i + 1), "]", "\n">> \o chunk

\* "\n\n".join(parts)
RECURSIVE JoinParagraphs(_)
JoinParagraphs(parts) ==
    IF parts = <<>> THEN <<>>
    ELSE IF Len(parts) = 1 THEN parts[1]
    ELSE parts[1] \o <<"\n\n">> \o JoinParagraphs(Tail(parts))

\* f"Relevant document context:\n\n{context}"
ContextContent(chs) ==
    <<"Relevant document context:", "\n\n">>
    \o JoinParagraphs([i \in 1..Len(chs) |-> Excerpt(i - 1, chs[i])])

user_query(c) == [role |-> "user", content |-> c]

\* generate_with_rag_context: the list handed to generate_response
rag_messages(c, hist, chs) ==
    <<[role |-> "system", content |-> RagInstruction],
      [role |-> "system", content |-> ContextContent(chs)]>>
    \o hist \o <<user_query(c)>>

\* conversation_history + [{"role": "user", "content": user_message_content}]
plain_messages(c, hist) == hist \o <<user_query(c)>>

\* Mutant: the grounded list built without the test "if chunks".
build_messages_always_grounded(m, chs, hist, c) ==
    IF m = "grounded_rag" THEN rag_messages(c, hist, chs)
    ELSE plain_messages(c, hist)

\* _generate_and_store_response: the list handed to generate_response
build_messages(m, chs, hist, c) ==
    IF m = "grounded_rag" /\ chs # <<>>
    THEN rag_messages(c, hist, chs)
    ELSE plain_messages(c, hist)

\* generate_response after _manage_context: the completion call's result, or
\* the fallback of the except branch
completion_response(sent, outcome) ==
    IF outcome.ok
    THEN [content |-> CompletionReply,
          tokens_used |-> IF outcome.usage
                          THEN count_message_tokens(sent)
                               + count_tokens(CompletionReply)
                          ELSE 0,
          model |-> GroqModel,
          finish_reason |-> "stop"]
    ELSE [content |-> Fallback,
          tokens_used |-> 0,
          model |-> GroqModel,
          error |-> outcome.error]

\* response["chunks_used"] = len(retrieved_chunks)
with_chunks_used(resp, n) == ("chunks_used" :> n) @@ resp

\* The response of the branch taken
mode_response(m, chs, resp) ==
    IF m = "grounded_rag" /\ chs # <<>>
    THEN with_chunks_used(resp, Len(chs))
    ELSE resp

\* response.get(key, default)
Get(resp, key, default) == IF key \in DOMAIN resp THEN resp[key] ELSE default

EmptyDict == <<>>

\* _create_message: the stored message
create_message(role, content, seq, tokens, metadata) ==
    [role |-> role,
     content |-> content,
     sequence_number |-> seq,
     tokens_used |-> IF tokens = 0 THEN count_tokens(content) ELSE tokens,
     metadata |-> metadata]

\* The metadata of the stored assistant message
assistant_metadata(resp) ==
    [model |-> Get(resp, "model", "None"),
     finish_reason |-> Get(resp, "finish_reason", "None"),
     chunks_used |-> Get(resp, "chunks_used", 0)]

_build_conversation_history(msgs) ==
    [i \in 1..Len(msgs) |-> [role |-> msgs[i].role, content |-> msgs[i].content]]

\* What generate_response logs after _manage_context
completion_log(outcome) ==
    IF outcome.ok
    THEN <<[level |-> "info", event |-> "LLM response generated successfully"]>>
    ELSE <<[level |-> "error", event |-> "Error generating LLM response",
            reason |-> outcome.error]>>

\* What the grounded branch logs before generate_response
grounded_log(m, db_ok, chs) ==
    IF m # "grounded_rag" THEN <<>>
    ELSE (IF db_ok THEN retrieve_log(documents)
          ELSE <<[level |-> "error", event |-> "Error retrieving chunks"]>>)
         \o (IF chs = <<>>
             THEN <<[level |-> "warning", event |-> "No documents found for RAG mode"]>>
             ELSE <<>>)

\* The chunks the grounded branch retrieves for the content c
retrieved_for(c, db_ok) ==
    IF db_ok THEN retrieve_relevant_chunks(documents, c, TopK) ELSE <<>>

\* Mutant: the user message numbered with the count of the stored messages.
next_sequence_number_without_increment(msgs) == Len(msgs)

\* sequence_number = len(messages) + 1
next_sequence_number(msgs) == Len(msgs) + 1

\* create_conversation up to the stored first user message
CreateConversation(m, c) ==
    /\ entry = "conversation"
    /\ conv_pc = "none"
    /\ mode' = m
    /\ conv_meta' = [total_messages |-> 0, total_tokens |-> 0]
    /\ user_content' = c
    /\ sequence_number' = 1
    /\ history' = <<>>
    /\ db_messages' = <<create_message("user", c, 1, 0, EmptyDict)>>
    /\ conv_pc' = "user_stored"
    /\ UNCHANGED <<settingsVars, concVars, ctxVars, chunkVars, scoreVars, retrVars,
                   retrieved_chunks, response>>

\* add_message up to the stored user message
AddMessage(c) ==
    /\ entry = "conversation"
    /\ conv_pc = "idle"
    /\ Len(db_messages) < 2 * MaxTurns
    /\ user_content' = c
    /\ sequence_number' = next_sequence_number(db_messages)
    /\ history' = _build_conversation_history(db_messages)
    /\ db_messages' = Append(db_messages,
                             create_message("user", c,
                                            next_sequence_number(db_messages),
                                            0, EmptyDict))
    /\ conv_pc' = "user_stored"
    /\ UNCHANGED <<settingsVars, concVars, ctxVars, chunkVars, scoreVars, retrVars,
                   mode, retrieved_chunks, response, conv_meta>>

\* _generate_and_store_response: retrieval in grounded mode, the list for the
\* model, generate_response with its context management and the completion
\* call, and the stored assistant message
GenerateAndStoreResponse(db_ok, outcome) ==
    /\ entry = "conversation"
    /\ conv_pc = "user_stored"
    /\ mode = "open_chat" => db_ok
    /\ LET chs == IF mode = "grounded_rag"
                  THEN retrieved_for(user_content, db_ok) ELSE <<>>
           msgs == build_messages(mode, chs, history, user_content)
           sent == budget_truncation(sliding_window(msgs, max_history), max_tokens)
           resp == mode_response(mode, chs, completion_response(sent, outcome))
       IN  /\ retrieved_chunks' = chs
           /\ messages' = msgs
           /\ windowed' = sliding_window(msgs, max_history)
           /\ managed' = sent
           /\ response' = resp
           /\ log' = log \o grounded_log(mode, db_ok, chs)
                         \o manage_context_log(sliding_window(msgs, max_history),
                                               max_tokens)
                         \o completion_log(outcome)
           /\ db_messages' = Append(db_messages,
                                    create_message("assistant", resp.content,
                                                   sequence_number + 1,
                                                   resp.tokens_used,
                                                   assistant_metadata(resp)))
    /\ IF mode = "grounded_rag"
       THEN /\ query' = user_content
            /\ top_k' = TopK
            /\ scored_chunks' = IF db_ok
                                THEN sorted_scored_chunks(documents, user_content)
                                ELSE <<>>
            /\ retrieved' = retrieved_for(user_content, db_ok)
            /\ ret_pc' = IF db_ok THEN "done" ELSE "failed"
       ELSE UNCHANGED <<query, top_k, scored_chunks, retrieved, ret_pc>>
    /\ conv_pc' = "response_stored"
    /\ UNCHANGED <<settingsVars, concVars, chunkVars, score_pc, chunk_str, score, ctx_pc,
                   documents, mode, history, user_content, sequence_number,
                   conv_meta>>

\* _update_conversation_stats and the return of the two messages
UpdateConversationStats ==
    /\ entry = "conversation"
    /\ conv_pc = "response_stored"
    /\ conv_meta' =
           [total_messages |-> conv_meta.total_messages + 2,
            total_tokens |-> conv_meta.total_tokens
                             + db_messages[Len(db_messages) - 1].tokens_used
                             + db_messages[Len(db_messages)].tokens_used]
    /\ log' = log \o <<[level |-> "info", event |-> "Message added to conversation"]>>
    /\ conv_pc' = "idle"
    /\ UNCHANGED <<settingsVars, concVars, chunkVars, scoreVars, retrVars, ctx_pc,
                   messages, windowed, managed, mode, db_messages, history,
                   user_content, sequence_number, retrieved_chunks, response>>

\* process_document for the conversation: a document of the given chunks stored
UploadDocument(texts) ==
    /\ entry = "conversation"
    /\ conv_pc = "idle"
    /\ Len(documents) < MaxUploads
    /\ documents' = documents \o
                    <<[filename |-> DocName(Len(documents) + 1),
                       chunks |-> StoredDocuments(<<texts>>)[1].chunks]>>
    /\ log' = log \o <<[level |-> "info", event |-> "Document processed"]>>
    /\ UNCHANGED <<settingsVars, concVars, chunkVars, scoreVars, convVars, ctx_pc,
                   messages, windowed, managed, ret_pc, top_k, scored_chunks,
                   retrieved>>

---------------------------------------------------------------------------
(* Concurrent ConversationService.add_message calls on one conversation *)

\* The requests being served at the same time
Callers == 1..MaxCallers

\* x put before the first message of a higher sequence number
RECURSIVE InsertBySequenceNumber(_, _)
InsertBySequenceNumber(s, x) ==
    IF s = <<>> THEN <<x>>
    ELSE IF x.sequence_number < Head(s).sequence_number
         THEN <<x>> \o s
         ELSE <<Head(s)>> \o InsertBySequenceNumber(Tail(s), x)

\* find(...).sort("sequence_number", 1)
RECURSIVE get_conversation_messages(_)
get_conversation_messages(msgs) ==
    IF msgs = <<>> THEN <<>>
    ELSE InsertBySequenceNumber(
             get_conversation_messages(SubSeq(msgs, 1, Len(msgs) - 1)),
             msgs[Len(msgs)])

\* The unique index on (conversation_id, sequence_number): insert_one raises
\* DuplicateKeyError for a number already stored for the conversation
SequenceNumberTaken(n) ==
    \E i \in 1..Len(db_messages) : db_messages[i].sequence_number = n

\* The response _generate_and_store_response obtains for a call
generate_response_for(m, chs, hist, c, outcome) ==
    mode_response(m, chs,
        completion_response(
            budget_truncation(
                sliding_window(build_messages(m, chs, hist, c), max_history),
                max_tokens),
            outcome))

\* The chunks of the grounded branch, none in open chat
chunks_for(m, c, db_ok) ==
    IF m = "grounded_rag" THEN retrieved_for(c, db_ok) ELSE <<>>

\* The two messages create_conversation stores
first_turn(m, c, outcome) ==
    LET resp == generate_response_for(m, <<>>, <<>>, c, outcome)
    IN  <<create_message("user", c, 1, 0, EmptyDict),
          create_message("assistant", resp.content, 2, resp.tokens_used,
                         assistant_metadata(resp))>>

NoResponse == <<>>

\* A call that has not read anything yet
NoCall ==
    [pc |-> "start", content |-> <<>>, sequence_number |-> 0,
     history |-> <<>>, response |-> NoResponse]

add_message_error_log ==
    <<[level |-> "error", event |-> "Error adding message"]>>

\* add_message: get_conversation, get_conversation_messages, and the locals
\* computed from what was read
CallReadMessages(p, c) ==
    /\ entry = "concurrent_add_message"
    /\ calls[p].pc = "start"
    /\ calls' = [calls EXCEPT ![p] =
                    [pc |-> "read",
                     content |-> c,
                     sequence_number |->
                         next_sequence_number(get_conversation_messages(db_messages)),
                     history |->
                         _build_conversation_history(
                             get_conversation_messages(db_messages)),
                     response |-> NoResponse]]
    /\ UNCHANGED <<settingsVars, ctxVars, chunkVars, scoreVars, retrVars,
                   convVars>>

\* add_message: _create_message for the user message; a DuplicateKeyError leaves
\* add_message through its except branch
CallStoreUserMessage(p) ==
    /\ entry = "concurrent_add_message"
    /\ calls[p].pc = "read"
    /\ IF SequenceNumberTaken(calls[p].sequence_number)
       THEN /\ calls' = [calls EXCEPT ![p].pc = "failed"]
            /\ log' = log \o add_message_error_log
            /\ UNCHANGED db_messages
       ELSE /\ calls' = [calls EXCEPT ![p].pc = "user_stored"]
            /\ db_messages' = Append(db_messages,
                                     create_message("user", calls[p].content,
                                                    calls[p].sequence_number, 0,
                                                    EmptyDict))
            /\ UNCHANGED log
    /\ UNCHANGED <<settingsVars, chunkVars, scoreVars, retrVars, ctx_pc,
                   messages, windowed, managed, conv_pc, mode, history,
                   user_content, sequence_number, retrieved_chunks, response,
                   conv_meta>>

\* add_message: _generate_and_store_response with sequence_number + 1
CallGenerateAndStoreResponse(p, db_ok, outcome) ==
    /\ entry = "concurrent_add_message"
    /\ calls[p].pc = "user_stored"
    /\ mode = "open_chat" => db_ok
    /\ LET chs == chunks_for(mode, calls[p].content, db_ok)
           resp == generate_response_for(mode, chs, calls[p].history,
                                         calls[p].content, outcome)
       IN  IF SequenceNumberTaken(calls[p].sequence_number + 1)
           THEN /\ calls' = [calls EXCEPT ![p].pc = "failed",
                                          ![p].response = resp]
                /\ log' = log \o grounded_log(mode, db_ok, chs)
                              \o completion_log(outcome)
                              \o add_message_error_log
                /\ UNCHANGED db_messages
           ELSE /\ calls' = [calls EXCEPT ![p].pc = "response_stored",
                                          ![p].response = resp]
                /\ log' = log \o grounded_log(mode, db_ok, chs)
                              \o completion_log(outcome)
                /\ db_messages' =
                       Append(db_messages,
                              create_message("assistant", resp.content,
                                             calls[p].sequence_number + 1,
                                             resp.tokens_used,
                                             assistant_metadata(resp)))
    /\ UNCHANGED <<settingsVars, chunkVars, scoreVars, retrVars, ctx_pc,
                   messages, windowed, managed, conv_pc, mode, history,
                   user_content, sequence_number, retrieved_chunks, response,
                   conv_meta>>

\* add_message: _update_conversation_stats and the return
CallUpdateConversationStats(p) ==
    /\ entry = "concurrent_add_message"
    /\ calls[p].pc = "response_stored"
    /\ conv_meta' =
           [total_messages |-> conv_meta.total_messages + 2,
            total_tokens |->
                conv_meta.total_tokens
                + create_message("user", calls[p].content,
                                 calls[p].sequence_number, 0,
                                 EmptyDict).tokens_used
                + create_message("assistant", calls[p].response.content,
                                 calls[p].sequence_number + 1,
                                 calls[p].response.tokens_used,
                                 EmptyDict).tokens_used]
    /\ calls' = [calls EXCEPT ![p].pc = "done"]
    /\ log' = log \o <<[level |-> "info", event |-> "Message added to conversation"]>>
    /\ UNCHANGED <<settingsVars, chunkVars, scoreVars, retrVars, ctx_pc,
                   messages, windowed, managed, conv_pc, mode, db_messages,
                   history, user_content, sequence_number, retrieved_chunks,
                   response>>

---------------------------------------------------------------------------
(* Specifications *)

CtxIdle ==
    /\ ctx_pc = "idle"
    /\ messages = <<>>
    /\ windowed = <<>>
    /\ managed = <<>>
    /\ log = <<>>

ChunkIdle ==
    /\ chunk_pc = "idle"
    /\ text = <<>>
    /\ words = <<>>
    /\ chunks = <<>>
    /\ chunk_index = 0
    /\ start = 0

RetrIdle ==
    /\ ret_pc = "idle"
    /\ documents = <<>>
    /\ top_k = TopK
    /\ scored_chunks = <<>>
    /\ retrieved = <<>>

ConcIdle == calls = [p \in Callers |-> NoCall]

ConvIdle ==
    /\ conv_pc = "none"
    /\ mode = "open_chat"
    /\ db_messages = <<>>
    /\ history = <<>>
    /\ user_content = <<>>
    /\ sequence_number = 0
    /\ retrieved_chunks = <<>>
    /\ response = NoResponse
    /\ conv_meta = [total_messages |-> 0, total_tokens |-> 0]

ScoreIdle ==
    /\ score_pc = "idle"
    /\ chunk_str = <<>>
    /\ score = ZeroScore

\* Settings() and LLMService(): any integers the environment gives
CtxInit ==
    /\ entry = "generate_response"
    /\ max_history \in 1..MaxHistory
    /\ max_tokens \in 0..MaxTokens
    /\ chunk_size = DefaultChunkSize
    /\ chunk_overlap = DefaultChunkOverlap
    /\ query = <<>>
    /\ CtxIdle
    /\ ChunkIdle
    /\ ScoreIdle
    /\ RetrIdle
    /\ ConvIdle
    /\ ConcIdle

CtxNext == \E msgs \in MessageLists : GenerateResponse(msgs)

CtxSpec == CtxInit /\ [][CtxNext]_vars

\* Settings() and RAGService(): chunk_size and chunk_overlap are taken from the
\* environment as they are; neither Settings nor RAGService.__init__ validates them.
ChunkInit ==
    /\ entry = "process_document"
    /\ max_history = DefaultMaxHistory
    /\ max_tokens = DefaultMaxTokens
    /\ chunk_size \in 1..MaxChunkSize
    /\ chunk_overlap \in 0..MaxChunkSize
    /\ query = <<>>
    /\ CtxIdle
    /\ ChunkIdle
    /\ ScoreIdle
    /\ RetrIdle
    /\ ConvIdle
    /\ ConcIdle

ChunkNext ==
    \/ \E t \in Texts : ChunkTextCall(t)
    \/ ChunkTextIteration
    \/ ChunkTextReturn

ChunkSpec == ChunkInit /\ [][ChunkNext]_vars

\* A running loop goes on running.
ChunkFairSpec ==
    ChunkSpec /\ WF_vars(ChunkTextIteration) /\ WF_vars(ChunkTextReturn)

ScoreInit ==
    /\ entry = "calculate_relevance_score"
    /\ max_history = DefaultMaxHistory
    /\ max_tokens = DefaultMaxTokens
    /\ chunk_size = DefaultChunkSize
    /\ chunk_overlap = DefaultChunkOverlap
    /\ query \in Queries
    /\ CtxIdle
    /\ ChunkIdle
    /\ ScoreIdle
    /\ RetrIdle
    /\ ConvIdle
    /\ ConcIdle

ScoreNext == \E c \in ChunkTexts : CalculateRelevanceScore(c)

ScoreSpec == ScoreInit /\ [][ScoreNext]_vars

\* The query is drawn at the start; the store's documents and top_k by the call.
RetrInit ==
    /\ entry = "retrieve_relevant_chunks"
    /\ max_history = DefaultMaxHistory
    /\ max_tokens = DefaultMaxTokens
    /\ chunk_size = DefaultChunkSize
    /\ chunk_overlap = DefaultChunkOverlap
    /\ query \in RetrQueries
    /\ CtxIdle
    /\ ChunkIdle
    /\ ScoreIdle
    /\ RetrIdle
    /\ ConvIdle
    /\ ConcIdle

RetrNext ==
    \E p \in Pools, k \in 1..TopK :
        \/ RetrieveRelevantChunks(p, k)
        \/ RetrieveRelevantChunksFails(p, k)

RetrSpec == RetrInit /\ [][RetrNext]_vars

\* The service runs with the default settings or with a short history window.
ConvInit ==
    /\ entry = "conversation"
    /\ max_history \in {MaxHistory, DefaultMaxHistory}
    /\ max_tokens = DefaultMaxTokens
    /\ chunk_size = DefaultChunkSize
    /\ chunk_overlap = DefaultChunkOverlap
    /\ query = <<>>
    /\ CtxIdle
    /\ ChunkIdle
    /\ ScoreIdle
    /\ RetrIdle
    /\ ConvIdle
    /\ ConcIdle

ConvNext ==
    \/ \E m \in Modes, c \in ConvContents : CreateConversation(m, c)
    \/ \E c \in ConvContents : AddMessage(c)
    \/ \E db_ok \in BOOLEAN, outcome \in CompletionOutcomes :
           GenerateAndStoreResponse(db_ok, outcome)
    \/ UpdateConversationStats
    \/ \E texts \in ConvUploads : UploadDocument(texts)

ConvSpec == ConvInit /\ [][ConvNext]_vars

\* The conversation was created by create_conversation: its first two messages
\* are stored and counted; every caller is about to call add_message.
ConcInit ==
    /\ entry = "concurrent_add_message"
    /\ max_history = DefaultMaxHistory
    /\ max_tokens = DefaultMaxTokens
    /\ chunk_size = DefaultChunkSize
    /\ chunk_overlap = DefaultChunkOverlap
    /\ query = <<>>
    /\ CtxIdle
    /\ ChunkIdle
    /\ ScoreIdle
    /\ RetrIdle
    /\ ConcIdle
    /\ conv_pc = "idle"
    /\ history = <<>>
    /\ user_content = <<>>
    /\ sequence_number = 0
    /\ retrieved_chunks = <<>>
    /\ response = NoResponse
    /\ \E m \in Modes, c \in ConvContents, outcome \in CompletionOutcomes :
           /\ mode = m
           /\ db_messages = first_turn(m, c, outcome)
           /\ conv_meta =
                  [total_messages |-> 2,
                   total_tokens |-> first_turn(m, c, outcome)[1].tokens_used
                                    + first_turn(m, c, outcome)[2].tokens_used]

ConcNext ==
    \E p \in Callers :
        \/ \E c \in ConvContents : CallReadMessages(p, c)
        \/ CallStoreUserMessage(p)
        \/ \E db_ok \in BOOLEAN, outcome \in CompletionOutcomes :
               CallGenerateAndStoreResponse(p, db_ok, outcome)
        \/ CallUpdateConversationStats(p)

ConcSpec == ConcInit /\ [][ConcNext]_vars

Init == CtxInit \/ ChunkInit \/ ScoreInit \/ RetrInit \/ ConvInit \/ ConcInit

Next == CtxNext \/ ChunkNext \/ ScoreNext \/ RetrNext \/ ConvNext \/ ConcNext

Spec == Init /\ [][Next]_vars


---------------------------------------------------------------------------
(* Claims about the context manager (CtxSpec) *)

Managed == ctx_pc = "managed"

LastK(s, k) == SubSeq(s, Len(s) - k + 1, Len(s))

\* The sliding window was applied: len(history) > max_history_messages
WindowApplied == Managed /\ Len(messages) > max_history

\* max_history_messages - count(system messages)
KeepCount == max_history - Len(SystemMessages(messages))

\* truncate_messages was called: the windowed list is over max_tokens
TruncationApplied == Managed /\ count_message_tokens(windowed) > max_tokens

\* Some system message of the history alone counts more than max_tokens
SingleSystemMessageOverBudget ==
    \E i \in 1..Len(messages) :
        /\ IsSystem(messages[i])
        /\ count_message_tokens(<<messages[i]>>) > max_tokens

\* C1 as stated: the output's token count never exceeds max_tokens unless a
\* single system message alone exceeds it.
C1_TokenBudgetAsStated ==
    Managed =>
        \/ count_message_tokens(managed) <= max_tokens
        \/ SingleSystemMessageOverBudget

\* C1 amended: when max_tokens is at least the conversation overhead (2), the
\* output's token count never exceeds max_tokens unless a single system
\* message alone exceeds it.
C1_TokenBudget ==
    (Managed /\ max_tokens >= ConversationOverhead) =>
        \/ count_message_tokens(managed) <= max_tokens
        \/ SingleSystemMessageOverBudget

\* C1 witness: truncation dropped a non-system message, kept another one
\* behind a system message, and the result fits.
C1_Witness ==
    /\ TruncationApplied
    /\ max_tokens >= ConversationOverhead
    /\ SystemMessages(managed) # <<>>
    /\ OtherMessages(managed) # <<>>
    /\ Len(managed) < Len(windowed)
    /\ count_message_tokens(managed) <= max_tokens

\* C2 as stated: the output never has more messages than
\* max(max_history_messages, number of system messages).
C2_WindowCap ==
    Managed =>
        Len(managed) <= Max(max_history, Len(SystemMessages(messages)))

\* C3 as stated: with the window applied and a keep-count of zero or less,
\* the windowed list holds the system messages only.
C3_NoKeepMeansSystemOnly ==
    (WindowApplied /\ KeepCount <= 0) =>
        windowed = SystemMessages(messages)

\* C4: with the window applied and fewer system messages than the cap, the
\* windowed list is the system messages in order, then exactly the last
\* (cap - S) non-system messages in order.
C4_WindowKeepsLast ==
    (WindowApplied /\ KeepCount > 0) =>
        /\ Len(OtherMessages(messages)) > KeepCount
        /\ windowed = SystemMessages(messages)
                      \o LastK(OtherMessages(messages), KeepCount)

\* C4 witness: a system message is kept and the oldest non-system message
\* is dropped by the window.
C4_Witness ==
    /\ WindowApplied
    /\ KeepCount > 0
    /\ SystemMessages(messages) # <<>>
    /\ messages[1].role # "system"
    /\ Len(windowed) = max_history

\* C5: truncation with remaining <= 0 returns the first system message
\* alone, the empty list only when there is no system message, and logs the
\* case as a warning; generate_response goes on to its completion call.
C5_SystemOverBudget ==
    (TruncationApplied /\ RemainingTokens(windowed, max_tokens) <= 0) =>
        /\ managed = IF SystemMessages(messages) = <<>>
                     THEN <<>>
                     ELSE <<SystemMessages(messages)[1]>>
        /\ (managed = <<>>) <=> (SystemMessages(messages) = <<>>)
        /\ \E i \in 1..Len(log) :
               log[i] = [level |-> "warning",
                         event |-> "System messages exceed token limit"]
        /\ \A i \in 1..Len(log) : log[i].level \in {"warning", "info"}

\* C5 witness: two system messages exceed the budget, the first alone is
\* returned although it alone exceeds the budget too.
C5_Witness ==
    /\ TruncationApplied
    /\ RemainingTokens(windowed, max_tokens) <= 0
    /\ Len(SystemMessages(messages)) >= 2
    /\ managed = <<SystemMessages(messages)[1]>>
    /\ count_message_tokens(managed) > max_tokens

\* C6: truncation with remaining > 0 returns every system message in order,
\* then a contiguous suffix of the non-system messages in order.
C6_ContiguousSuffix ==
    (TruncationApplied /\ RemainingTokens(windowed, max_tokens) > 0) =>
        \E k \in 0..Len(OtherMessages(windowed)) :
            managed = SystemMessages(windowed)
                      \o LastK(OtherMessages(windowed), k)

\* C6 witness: the walk stopped at a message that did not fit although the
\* older, smaller message before it would have fitted.
C6_Witness ==
    /\ TruncationApplied
    /\ RemainingTokens(windowed, max_tokens) > 0
    /\ Len(OtherMessages(windowed)) = 3
    /\ managed = SystemMessages(windowed) \o LastK(OtherMessages(windowed), 1)
    /\ count_message_tokens(<<OtherMessages(windowed)[1]>>)
         + count_message_tokens(<<OtherMessages(windowed)[3]>>)
           <= RemainingTokens(windowed, max_tokens)

---------------------------------------------------------------------------
(* Claims about the chunker (ChunkSpec, ChunkFairSpec) *)

ValidOverlap == chunk_overlap < chunk_size

\* The cut-off of the loop is never what stops it when overlap < chunk_size.
ChunkCapNotReached ==
    (ValidOverlap /\ chunk_pc = "loop" /\ start < Len(words)) =>
        chunk_index < MaxChunks

\* The number of whitespace-delimited words of t, counted at the word starts
WordCount(t) ==
    Cardinality({i \in 1..Len(t) :
                    /\ ~IsSpace(t[i])
                    /\ (i = 1 \/ IsSpace(t[i - 1]))})

\* The word positions a chunk covers
WordRange(c) == c.start_word .. (c.end_word - 1)

\* C7 as stated: chunk_text never runs its loop with overlap >= chunk_size,
\* and no iteration leaves the window where the one before started.
C7_InvalidOverlapRejected ==
    /\ chunk_pc = "loop" => ValidOverlap
    /\ (chunk_pc = "loop" /\ chunks # <<>>) =>
           start > chunks[Len(chunks)].start_word

\* C8: with chunk_size > overlap >= 0, every iteration strictly increases
\* start, start stays within the word count, and the loop ends with a chunk
\* whose end is the word count.
C8_ChunkTextTerminates ==
    /\ [][(ValidOverlap /\ chunk_index' = chunk_index + 1) =>
              (start' > start /\ start' <= Len(words))]_vars
    /\ (chunk_pc = "loop" /\ ValidOverlap) ~>
           (/\ chunk_pc = "done"
            /\ chunks # <<>>
            /\ chunks[Len(chunks)].end_word = Len(words))

\* C8 witness: a loop with a positive overlap has ended after several
\* iterations.
C8_Witness ==
    /\ chunk_pc = "done"
    /\ ValidOverlap
    /\ chunk_overlap >= 1
    /\ chunk_index >= 2
    /\ start = Len(words)

\* C9: with chunk_size > overlap >= 0 and more than chunk_size words, each
\* pair of consecutive chunks but possibly the last shares exactly overlap
\* words, and the chunks' word ranges cover 0..total-1 with no gap.
C9_OverlapAndCoverage ==
    (chunk_pc = "done" /\ ValidOverlap /\ Len(words) > chunk_size) =>
        /\ \A i \in 1..(Len(chunks) - 2) :
               /\ chunks[i + 1].start_word = chunks[i].end_word - chunk_overlap
               /\ Cardinality(WordRange(chunks[i]) \cap WordRange(chunks[i + 1]))
                    = chunk_overlap
        /\ UNION {WordRange(chunks[i]) : i \in 1..Len(chunks)}
             = 0..(Len(words) - 1)

\* C9 witness: three or more chunks with a positive overlap.
C9_Witness ==
    /\ chunk_pc = "done"
    /\ ValidOverlap
    /\ chunk_overlap >= 1
    /\ Len(words) > chunk_size
    /\ Len(chunks) >= 3

\* C10: a text of at most chunk_size words (the empty text too) gives exactly
\* one chunk: chunk_0, the text itself, start_word 0, end_word = word_count =
\* the word count of the text.
C10_SingleChunk ==
    (chunk_pc # "idle" /\ WordCount(text) <= chunk_size) =>
        /\ chunk_pc = "done"
        /\ chunks = <<[chunk_id |-> ChunkId(0),
                       text |-> text,
                       start_word |-> 0,
                       end_word |-> WordCount(text),
                       word_count |-> WordCount(text)]>>

\* C10 witness: a text of exactly chunk_size words that is not the words
\* joined by single spaces.
C10_Witness ==
    /\ chunk_pc = "done"
    /\ Len(chunks) = 1
    /\ WordCount(text) = chunk_size
    /\ text # Join(words)

\* C11: with chunk_size > overlap >= 0 and more than chunk_size words, the
\* k-th chunk (from 0) has id chunk_<k>, starts at k * (chunk_size - overlap)
\* and ends at min(start + chunk_size, total); the last chunk is the first
\* one whose end is the word count.
C11_ChunkPositions ==
    (chunk_pc = "done" /\ ValidOverlap /\ Len(words) > chunk_size) =>
        \A k \in 1..Len(chunks) :
            /\ chunks[k].chunk_id = ChunkId(k - 1)
            /\ chunks[k].start_word = (k - 1) * (chunk_size - chunk_overlap)
            /\ chunks[k].end_word
                 = Min(chunks[k].start_word + chunk_size, Len(words))
            /\ chunks[k].word_count = chunks[k].end_word - chunks[k].start_word
            /\ (chunks[k].end_word = Len(words)) <=> (k = Len(chunks))

\* C11 witness: the last chunk is shorter than chunk_size.
C11_Witness ==
    /\ chunk_pc = "done"
    /\ ValidOverlap
    /\ Len(words) > chunk_size
    /\ Len(chunks) >= 2
    /\ chunks[Len(chunks)].word_count < chunk_size
    /\ chunks[Len(chunks)].end_word = Len(words)

---------------------------------------------------------------------------
(* Claims about the relevance scorer (ScoreSpec) *)

\* The whitespace-delimited words of s, each lower-cased and stripped of its
\* punctuation, without the ones that become empty
NormalizedWords(s) ==
    {StripPunctuation(LowerStr(SubSeq(s, i, j))) :
        <<i, j>> \in {p \in (1..Len(s)) \X (1..Len(s)) :
                        /\ p[1] <= p[2]
                        /\ \A k \in p[1]..p[2] : ~IsSpace(s[k])
                        /\ (p[1] = 1 \/ IsSpace(s[p[1] - 1]))
                        /\ (p[2] = Len(s) \/ IsSpace(s[p[2] + 1]))}}
    \ {<<>>}

\* "refund policy"
RefundQuery ==
    <<"r", "e", "f", "u", "n", "d", " ", "p", "o", "l", "i", "c", "y">>

\* "Our refund policy allows returns within 30 days"
RefundChunk ==
    <<"O", "u", "r", " ", "r", "e", "f", "u", "n", "d", " ", "p", "o", "l",
      "i", "c", "y", " ", "a", "l", "l", "o", "w", "s", " ", "r", "e", "t",
      "u", "r", "n", "s", " ", "w", "i", "t", "h", "i", "n", " ", "3", "0",
      " ", "d", "a", "y", "s">>

\* C12: the score is |A \cap B| / |A \cup B| for the sets A, B of unique
\* lower-cased, punctuation-stripped words of query and chunk, 0.0 when
\* either set is empty, always within [0, 1]; "refund policy" against
\* "Our refund policy allows returns within 30 days" scores 2/8.
C12_Jaccard ==
    score_pc = "done" =>
        LET A == NormalizedWords(query)
            B == NormalizedWords(chunk_str)
        IN  /\ (A = {} \/ B = {}) => score = ZeroScore
            /\ (A # {} /\ B # {}) =>
                   score.num * Cardinality(A \cup B)
                     = Cardinality(A \cap B) * score.den
            /\ score.den > 0
            /\ 0 <= score.num /\ score.num <= score.den
            /\ calculate_relevance_score(RefundQuery, RefundChunk)
                 = [num |-> 2, den |-> 8]

\* C12 witness: a query in upper case with punctuation shares one of the
\* chunk's two words.
C12_Witness ==
    /\ score_pc = "done"
    /\ score = [num |-> 1, den |-> 2]
    /\ ToSet(query) = {"A", "!"}

\* C13 as stated: every non-empty string scores 1.0 against itself.
C13_SelfScoreAsStated ==
    (score_pc = "done" /\ query # <<>> /\ chunk_str = query) =>
        score.num = score.den

\* C13 amended: every string with at least one word (after lower-casing and
\* stripping punctuation) scores 1.0 against itself.
C13_SelfScore ==
    (score_pc = "done" /\ chunk_str = query /\ NormalizedWords(query) # {}) =>
        /\ score.num = score.den
        /\ score.num > 0

\* C13 witness: a string with an upper-case letter scored against itself.
C13_Witness ==
    /\ score_pc = "done"
    /\ chunk_str = query
    /\ "A" \in ToSet(query)
    /\ score.num = score.den

---------------------------------------------------------------------------
(* Claims about the token count and the user message sent *)

\* The sum, over the places I of the list, of 4 + tokens(role) + tokens(content)
RECURSIVE IndexSum(_, _)
IndexSum(msgs, I) ==
    IF I = {} THEN 0
    ELSE LET i == CHOOSE x \in I : TRUE
         IN  4 + count_tokens(RoleText(msgs[i].role))
               + count_tokens(msgs[i].content)
               + IndexSum(msgs, I \ {i})

\* C19: the token count of a message list is 2 plus, for each message,
\* 4 + tokens(role) + tokens(content); the count of the empty list is 2.
C19_MessageTokenSum ==
    /\ count_message_tokens(<<>>) = 2
    /\ \A msgs \in {messages, windowed, managed} :
           count_message_tokens(msgs) = 2 + IndexSum(msgs, DOMAIN msgs)

\* A list of messages of different roles and lengths counted over the budget,
\* and the empty list sent on
C19_Witness ==
    /\ Managed
    /\ Len(messages) >= 3
    /\ \E i, j \in 1..Len(messages) :
           /\ messages[i].role # messages[j].role
           /\ Len(messages[i].content) # Len(messages[j].content)
    /\ count_message_tokens(messages) > max_tokens
    /\ managed = <<>>

\* The current user message: the last element of the list given
CurrentUserMessage == messages[Len(messages)]

\* C20 as stated: the list sent to the completion service is never empty and
\* ends with the current user message.
C20_UserMessageSentAsStated ==
    Managed =>
        /\ managed # <<>>
        /\ managed[Len(managed)] = CurrentUserMessage

\* When the window applies, the system messages leave room for other messages
WindowLeavesRoom ==
    Len(messages) > max_history => Len(SystemMessages(messages)) < max_history

\* When the windowed list is over the budget, the user message fits into what
\* the system messages leave of it
UserMessageFits ==
    count_message_tokens(windowed) > max_tokens =>
        count_message_tokens(<<CurrentUserMessage>>)
            <= max_tokens - count_message_tokens(SystemMessages(messages))

\* C20: the list sent to the completion service is non-empty and ends with the
\* current user message, provided that the system messages are fewer than
\* max_history when the window applies and that the user message fits into the
\* budget left by the system messages when the list is truncated.
C20_UserMessageSent ==
    (Managed /\ WindowLeavesRoom /\ UserMessageFits) =>
        /\ managed # <<>>
        /\ managed[Len(managed)] = CurrentUserMessage

\* The window and the truncation both cut the list, a system message is kept,
\* and the user message is still the last one sent
C20_Witness ==
    /\ WindowApplied
    /\ TruncationApplied
    /\ WindowLeavesRoom
    /\ UserMessageFits
    /\ SystemMessages(messages) # <<>>
    /\ windowed # messages
    /\ managed # windowed
    /\ managed[Len(managed)] = CurrentUserMessage

---------------------------------------------------------------------------
(* Claims about retrieve_relevant_chunks *)

Retrieved == ret_pc \in {"done", "failed"}

\* The texts of the chunks in the store
PoolTexts ==
    UNION {{documents[i].chunks[j].text : j \in 1..Len(documents[i].chunks)} :
              i \in 1..Len(documents)}

\* How many chunks the store holds
RECURSIVE ChunkTotal(_)
ChunkTotal(docs) ==
    IF docs = <<>> THEN 0 ELSE Len(Head(docs).chunks) + ChunkTotal(Tail(docs))

\* The query's score for a text
QueryScore(t) == calculate_relevance_score(query, t)

\* C14: whatever the store's documents, the query and top_k, the call returns
\* at most top_k texts, each the text of a chunk in the store, and the score
\* never rises along the returned list.
C14_TopKDescending ==
    Retrieved =>
        /\ Len(retrieved) <= top_k
        /\ \A i \in 1..Len(retrieved) : retrieved[i] \in PoolTexts
        /\ \A i, j \in 1..Len(retrieved) :
               i < j => ~ScoreGreater(QueryScore(retrieved[j]),
                                      QueryScore(retrieved[i]))

\* The store holds more than top_k chunks, its first chunk scores below a later
\* one, and top_k texts with a falling score were returned
C14_Witness ==
    /\ ret_pc = "done"
    /\ ChunkTotal(documents) > top_k
    /\ Len(retrieved) = top_k
    /\ top_k >= 2
    /\ ScoreGreater(QueryScore(retrieved[1]), QueryScore(retrieved[top_k]))
    /\ ScoreGreater(QueryScore(retrieved[1]),
                    QueryScore(documents[1].chunks[1].text))

\* Place of a scored entry in the order the chunks are met: its document's
\* place in the store, then its chunk's place in the document
MetBefore(a, b) ==
    \/ a.document[2] < b.document[2]
    \/ a.document[2] = b.document[2] /\ a.chunk_id[2] < b.chunk_id[2]

SameScore(a, b) == ~ScoreGreater(a, b) /\ ~ScoreGreater(b, a)

\* C15: the sorted list holds every chunk of the store once, chunks of equal
\* score stand in the order they were met (document order, then chunk order),
\* and the texts returned are those of the first top_k entries.
C15_StableTies ==
    ret_pc = "done" =>
        /\ Len(scored_chunks) = ChunkTotal(documents)
        /\ \A i, j \in 1..Len(scored_chunks) :
               i < j /\ SameScore(scored_chunks[i].score, scored_chunks[j].score)
                   => MetBefore(scored_chunks[i], scored_chunks[j])
        /\ Len(retrieved) = Min(top_k, Len(scored_chunks))
        /\ \A i \in 1..Len(retrieved) : retrieved[i] = scored_chunks[i].text

\* Two chunks of different text and equal score were returned, behind a chunk
\* of higher score that was met after both
C15_Witness ==
    /\ ret_pc = "done"
    /\ \E i, j, h \in 1..Len(retrieved) :
           /\ h < i /\ i < j
           /\ SameScore(scored_chunks[i].score, scored_chunks[j].score)
           /\ scored_chunks[i].text # scored_chunks[j].text
           /\ ScoreGreater(scored_chunks[h].score, scored_chunks[i].score)
           /\ MetBefore(scored_chunks[j], scored_chunks[h])

---------------------------------------------------------------------------
(* Claims about the conversation turn *)

\* The turn's response has just been stored
ResponseStored == conv_pc = "response_stored"

\* The assistant message stored for the turn
StoredAssistant == db_messages[Len(db_messages)]

GroundedTurn == ResponseStored /\ mode = "grounded_rag"

HasSystemMessage(msgs) == \E i \in 1..Len(msgs) : msgs[i].role = "system"

\* C16: in grounded_rag mode with zero chunks retrieved the turn completes, the
\* list built for the model is history + [user query], no system message is in
\* it or in what context management sends on (which is the same list whenever
\* it fits the window and the budget), and the stored assistant message has
\* chunks_used = 0.
C16_ZeroChunksPlainChat ==
    (GroundedTurn /\ retrieved_chunks = <<>>) =>
        /\ messages = history \o <<[role |-> "user", content |-> user_content]>>
        /\ ~HasSystemMessage(messages)
        /\ ~HasSystemMessage(managed)
        /\ (Len(messages) <= max_history
            /\ count_message_tokens(messages) <= max_tokens) => managed = messages
        /\ StoredAssistant.role = "assistant"
        /\ StoredAssistant.sequence_number = sequence_number + 1
        /\ StoredAssistant.metadata.chunks_used = 0

\* A grounded turn on a conversation without documents, after an earlier turn
C16_Witness ==
    /\ GroundedTurn
    /\ documents = <<>>
    /\ ret_pc = "done"
    /\ retrieved_chunks = <<>>
    /\ Len(history) >= 2
    /\ StoredAssistant.metadata.chunks_used = 0

\* Where the label of the i-th excerpt starts in the context message: behind
\* the heading and its blank line, and behind the excerpts before it, each with
\* its label, its line break, its text and the blank line after it
RECURSIVE ExcerptOffset(_)
ExcerptOffset(i) ==
    IF i = 1 THEN 3
    ELSE ExcerptOffset(i - 1) + 4 + Len(retrieved_chunks[i - 1]) + 1

\* C17: in grounded_rag mode with n >= 1 chunks retrieved, the list given to
\* context management is [instruction, context] + history + [user query]; the
\* context message holds the n chunk texts in retrieval order, the i-th under
\* the label Document Excerpt i; the window is applied to the list with the two
\* system messages already in it; and chunks_used = n is reported.
C17_GroundedMessages ==
    (GroundedTurn /\ Len(retrieved_chunks) >= 1) =>
        LET n == Len(retrieved_chunks)
            c == messages[2].content
            real == SubSeq(messages, 3, Len(messages))
        IN  /\ Len(messages) = Len(history) + 3
            /\ messages[1] = [role |-> "system", content |-> RagInstruction]
            /\ messages[2].role = "system"
            /\ real = history \o <<[role |-> "user", content |-> user_content]>>
            /\ ~HasSystemMessage(real)
            /\ retrieved_chunks = retrieved
            /\ SubSeq(c, 1, 2) = <<"Relevant document context:", "\n\n">>
            /\ \A i \in 1..n :
                   /\ SubSeq(c, ExcerptOffset(i), ExcerptOffset(i) + 3)
                          = <<"[Document Excerpt ", ToString(i), "]", "\n">>
                   /\ SubSeq(c, ExcerptOffset(i) + 4,
                             ExcerptOffset(i) + 3 + Len(retrieved_chunks[i]))
                          = retrieved_chunks[i]
            /\ Len(c) = ExcerptOffset(n) + 3 + Len(retrieved_chunks[n])
            /\ Len(messages) <= max_history => windowed = messages
            /\ (Len(messages) > max_history /\ max_history > 2) =>
                   windowed = <<messages[1], messages[2]>>
                              \o LastK(real, max_history - 2)
            /\ response.chunks_used = n
            /\ StoredAssistant.metadata.chunks_used = n

\* A grounded turn with three different chunks retrieved and a list longer
\* than the window
C17_Witness ==
    /\ GroundedTurn
    /\ Len(retrieved_chunks) = TopK
    /\ retrieved_chunks[1] # retrieved_chunks[2]
    /\ retrieved_chunks[2] # retrieved_chunks[3]
    /\ Len(history) >= 2
    /\ Len(messages) > max_history
    /\ windowed # messages
    /\ StoredAssistant.metadata.chunks_used = TopK

\* The completion call of the turn failed
CompletionFailed == ResponseStored /\ "error" \in DOMAIN response

\* C18: when the completion call fails, the assistant message stored for the
\* turn has the fallback text and a token count of zero, no stored message
\* holds the failure text, and the failure reason is logged.
C18_FallbackRecorded ==
    CompletionFailed =>
        /\ StoredAssistant.role = "assistant"
        /\ StoredAssistant.content = Fallback
        /\ StoredAssistant.tokens_used = 0
        /\ \A i \in 1..Len(db_messages) : db_messages[i].content # response.error
        /\ \E i \in 1..Len(log) :
               /\ log[i].event = "Error generating LLM response"
               /\ log[i].reason = response.error

---------------------------------------------------------------------------
(* Claims about the suffix kept by truncate_messages *)

\* truncate_messages ran on the windowed list and its walk had a budget
WalkRan == TruncationApplied /\ RemainingTokens(windowed, max_tokens) > 0

\* How many non-system messages were sent on
KeptCount == Len(managed) - Len(SystemMessages(windowed))

\* The system messages followed by the last k non-system messages
WithSuffix(k) == SystemMessages(windowed) \o LastK(OtherMessages(windowed), k)

\* The token counts of the messages of s, each counted as a list of its own
RECURSIVE CountedOneByOne(_)
CountedOneByOne(s) ==
    IF s = <<>> THEN 0
    ELSE count_message_tokens(<<s[1]>>) + CountedOneByOne(Tail(s))

\* C21 as stated: the non-system messages kept are a suffix of the non-system
\* messages, and the output with the next older one added would count more
\* than max_tokens.
C21_LongestSuffixAsStated ==
    WalkRan =>
        /\ KeptCount \in 0..Len(OtherMessages(windowed))
        /\ managed = WithSuffix(KeptCount)
        /\ KeptCount < Len(OtherMessages(windowed)) =>
               count_message_tokens(WithSuffix(KeptCount + 1)) > max_tokens

\* C21: the non-system messages kept are the longest suffix whose messages,
\* each counted as a list of its own, sum to at most
\* max_tokens - count_message_tokens(system messages): the next older message
\* counted the same way would pass that remainder.
C21_LongestSuffix ==
    WalkRan =>
        /\ KeptCount \in 0..Len(OtherMessages(windowed))
        /\ managed = WithSuffix(KeptCount)
        /\ CountedOneByOne(LastK(OtherMessages(windowed), KeptCount))
               <= max_tokens - count_message_tokens(SystemMessages(windowed))
        /\ KeptCount < Len(OtherMessages(windowed)) =>
               CountedOneByOne(LastK(OtherMessages(windowed), KeptCount + 1))
                   > max_tokens - count_message_tokens(SystemMessages(windowed))

\* The walk kept some non-system messages behind a system message and dropped
\* an older one although the output with it would have stayed within max_tokens
C21_Witness ==
    /\ WalkRan
    /\ SystemMessages(windowed) # <<>>
    /\ KeptCount >= 1
    /\ KeptCount < Len(OtherMessages(windowed))
    /\ count_message_tokens(WithSuffix(KeptCount + 1)) <= max_tokens

---------------------------------------------------------------------------
(* Claims about chunks of score zero in a grounded turn *)

\* The score of a chunk text against the user message of the turn
TurnScore(t) == calculate_relevance_score(user_content, t)

ScoresZero(t) == TurnScore(t).num = 0

\* The chunks of the conversation that score above zero against the user message
PositiveChunks ==
    UNION {{<<i, j>> : j \in {x \in 1..Len(documents[i].chunks) :
                                  ~ScoresZero(documents[i].chunks[x].text)}} :
              i \in 1..Len(documents)}

\* The conversation has chunks and every one of them scores zero
AllChunksScoreZero == documents # <<>> /\ PositiveChunks = {}

\* C22 as stated: in a grounded turn no chunk of score zero is among the chunks
\* put into the context message, and when every chunk of the conversation
\* scores zero the turn is answered as plain chat with chunks_used = 0.
C22_NoZeroScoreChunkAsStated ==
    GroundedTurn =>
        /\ \A i \in 1..Len(retrieved_chunks) : ~ScoresZero(retrieved_chunks[i])
        /\ AllChunksScoreZero =>
               /\ ~HasSystemMessage(messages)
               /\ StoredAssistant.metadata.chunks_used = 0

\* C22: in a grounded turn whose retrieval succeeds, the first
\* min(3, number of chunks) entries of the ranking are put into the context
\* whatever their score: a chunk of score zero is among them only behind every
\* chunk of positive score, that is when fewer than 3 chunks score above zero;
\* the turn is answered as plain chat with chunks_used = 0 only when the
\* conversation has no chunk, and with chunks all scoring zero it is grounded
\* on the first of them in the order they were met.
C22_ZeroScoreFillsUp ==
    (GroundedTurn /\ ret_pc = "done") =>
        /\ Len(retrieved_chunks) = Min(TopK, ChunkTotal(documents))
        /\ \A i \in 1..Len(retrieved_chunks) :
               ScoresZero(retrieved_chunks[i]) => i > Cardinality(PositiveChunks)
        /\ StoredAssistant.metadata.chunks_used = Len(retrieved_chunks)
        /\ HasSystemMessage(messages) <=> documents # <<>>
        /\ AllChunksScoreZero =>
               \A i \in 1..Len(retrieved_chunks) :
                   retrieved_chunks[i] = scored_chunks[i].text
                   /\ \A j \in 1..Len(scored_chunks) :
                          i < j => MetBefore(scored_chunks[i], scored_chunks[j])

\* A grounded turn on a conversation whose chunks all score zero against the
\* user message: the chunks are in the context and chunks_used is not 0
C22_Witness ==
    /\ GroundedTurn
    /\ ret_pc = "done"
    /\ AllChunksScoreZero
    /\ retrieved_chunks # <<>>
    /\ HasSystemMessage(messages)
    /\ StoredAssistant.metadata.chunks_used = Len(retrieved_chunks)

---------------------------------------------------------------------------
(* Claims about sequence numbers and the message count *)

\* No create_conversation or add_message call is under way
NoCallUnderWay == conv_pc = "idle"

\* The sequence numbers of the stored messages of a role
NumbersOf(role) ==
    {db_messages[i].sequence_number :
        i \in {x \in 1..Len(db_messages) : db_messages[x].role = role}}

\* C23: after any sequence of calls, one at a time, the stored messages carry
\* the sequence numbers 1..2k once each, the odd ones on user messages and the
\* even ones on assistant messages, and total_messages is 2k.
C23_SequenceNumbers ==
    NoCallUnderWay =>
        \E k \in 1..MaxTurns :
            /\ Len(db_messages) = 2 * k
            /\ \A n \in 1..(2 * k) :
                   Cardinality({i \in 1..Len(db_messages) :
                                   db_messages[i].sequence_number = n}) = 1
            /\ NumbersOf("user") = {n \in 1..(2 * k) : n % 2 = 1}
            /\ NumbersOf("assistant") = {n \in 1..(2 * k) : n % 2 = 0}
            /\ conv_meta.total_messages = 2 * k

\* Every turn allowed was taken, one of them with a failed completion call and
\* one with a successful one
C23_Witness ==
    /\ NoCallUnderWay
    /\ Len(db_messages) = 2 * MaxTurns
    /\ conv_meta.total_messages = 2 * MaxTurns
    /\ \E i, j \in 1..Len(db_messages) :
           /\ db_messages[i].content = Fallback
           /\ db_messages[j].content = CompletionReply

---------------------------------------------------------------------------
(* Claims about concurrent add_message calls *)

\* Every concurrent call has returned or raised
AllCallsFinished ==
    /\ entry = "concurrent_add_message"
    /\ \A p \in Callers : calls[p].pc \in {"done", "failed"}

\* C24: once the concurrent add_message calls have all finished, every stored
\* user message is followed by a stored assistant message with the next
\* sequence number, and total_messages is the number of stored messages.
C24_ConcurrentAddMessage ==
    AllCallsFinished =>
        /\ \A i \in 1..Len(db_messages) :
               db_messages[i].role = "user" =>
                   \E j \in 1..Len(db_messages) :
                       /\ db_messages[j].role = "assistant"
                       /\ db_messages[j].sequence_number
                              = db_messages[i].sequence_number + 1
        /\ conv_meta.total_messages = Len(db_messages)

=============================================================================
